---- MODULE Spec2Model ----
(***************************************************************************)
(* Model of the parallel binary radix tree builder                         *)
(*   nih/bintree/cuda/bintree_gen_inline.h  (generate, split_kernel,       *)
(*   gen_leaves_kernel, find_leading_bit_difference)                       *)
(* and of the packed octree node                                           *)
(*   nih/octree/octree_inline.h             (Octree_node_base, get_octant) *)
(*                                                                         *)
(* 32-bit unsigned values that can take the pattern 0xFFFFFFFF (a bit      *)
(* level decremented below 0) are held as the two's complement int32       *)
(* reading of the same 32 bits, so that level - 1 needs no wide            *)
(* arithmetic; m_packed_info is held as its 32 bits.                       *)
(***************************************************************************)
EXTENDS Integers, Sequences, FiniteSets, TLC

\* ------------------------------------------------------------------ bounds
\* largest number of keys of a generated input
MaxN == 4
\* largest key width (bits) of a generated input
MaxBits == 2
\* largest max_leaf_size of a generated input
MaxLeafSize == 4
\* workers per cooperative group (32 in the source, scaled down so that a
\* launch over a handful of tasks is spread over several groups)
WARP_SIZE == 2

\* ------------------------------------------------------------ bit helpers
\* bit b of the non-negative integer x
RECURSIVE Bit(_, _)
Bit(x, b) == IF b = 0 THEN x % 2 ELSE Bit(x \div 2, b - 1)

\* all sorted (non-decreasing) key arrays of length n over [0, 2^bits)
RECURSIVE SortedSeqs(_, _)
SortedSeqs(n, lo_hi) ==
    IF n = 0 THEN { <<>> }
    ELSE UNION { { <<k>> \o s : s \in SortedSeqs(n - 1, <<k, lo_hi[2]>>) }
                 : k \in lo_hi[1] .. lo_hi[2] }

\* ------------------------------------------------------------------ state
VARIABLES
    codes,            \* the sorted key array (codes[i+1] is the source's codes[i])
    bits,             \* key width passed to generate()
    max_leaf_size,
    keep_singletons,
    pc,               \* position of generate(): "init", "loop", "split", "gen_leaves",
                      \* "done" ("idle" when generate() is not called)
    m_task_queues,    \* <<queue 0, queue 1>>, each a map slot -> Split_task
    queue_size,       \* m_task_queues[q].size(): the slots queue q has storage for
    launches,         \* the calls of split() and of gen_leaves() made by generate()
    m_counters,       \* m_counters[0], [1]: task counts; m_counters[2]: leaf counter
    in_queue,
    out_queue,
    n_nodes,
    level,            \* generate()'s int32 level
    warp_pc,          \* per cooperative group of the running launch: 0 (not started),
                      \* 1 (split_kernel: tasks emitted), 2 (done)
    thread,           \* per task of the running launch: the worker's locals
    nodes,            \* tree storage: node index -> sequence of write_node calls
    leaves,           \* tree storage: leaf index -> sequence of write_leaf calls
    reserved_nodes,   \* largest argument given to tree.reserve_nodes so far
    reserved_leaves,  \* largest argument given to tree.reserve_leaves so far
    m_nodes,          \* context.m_nodes
    m_leaves,         \* context.m_leaves
    m_packed_info,    \* Octree_node_base::m_packed_info, bit i at m_packed_info[i+1]
    octant_in,        \* the mask and index the Octree_node calls are made with
    last_call         \* the last Octree_node call, its argument and its result

bintree_vars == << codes, bits, max_leaf_size, keep_singletons, pc, m_task_queues,
                   queue_size, launches,
                   m_counters, in_queue, out_queue, n_nodes, level, warp_pc, thread,
                   nodes, leaves, reserved_nodes, reserved_leaves, m_nodes, m_leaves >>
octree_vars == << m_packed_info, octant_in, last_call >>
vars == << bintree_vars, octree_vars >>

n_codes == Len(codes)

\* ------------------------------------------------------ Split_task, levels
Split_task(node, begin, end, input) ==
    [m_node |-> node, m_begin |-> begin, m_end |-> end, m_input |-> input]

\* find the most significant bit smaller than start by which code0 and code1
\* differ; the int32 reading of the uint32 it returns (-1 when none differs)
RECURSIVE find_leading_bit_difference(_, _, _)
find_leading_bit_difference(start_level, code0, code1) ==
    IF start_level >= 0 /\ Bit(code0, start_level) = Bit(code1, start_level)
    THEN find_leading_bit_difference(start_level - 1, code0, code1)
    ELSE start_level

\* The bit selected by the mask 1u << lvl, -1 for the mask 0.  For lvl in
\* [0,32) it is bit lvl.  Otherwise the shift count is out of range and the
\* result is undefined: a build yields either the mask 0 (count clamped) or
\* the mask 1u << (lvl mod 32) (count wrapped); wraps says which.
shift_bit(lvl, wraps) ==
    IF lvl >= 0 /\ lvl < 32 THEN lvl ELSE IF wraps THEN lvl % 32 ELSE -1

\* mask_and<uint32>(1u << lvl) applied to a key; b is the selected bit
mask_and(b, key) == b >= 0 /\ Bit(key, b) = 1

\* find_pivot: binary search for the first index in [lo, hi) whose key
\* satisfies the predicate, hi when there is none
RECURSIVE find_pivot(_, _, _)
find_pivot(lo, hi, b) ==
    IF lo >= hi THEN lo
    ELSE LET mid == (lo + hi) \div 2
         IN  IF mask_and(b, codes[mid + 1])
             THEN find_pivot(lo, mid, b)
             ELSE find_pivot(mid + 1, hi, b)

\* ------------------------------------------------- the tree writer (Tree)
\* tree.write_node( node, left, right, index ): the call is appended to the
\* history of node slot `node`; the slot holds the last one.  by names the
\* kernel that makes the call.
write_node(ns, node, left, right, index, by) ==
    LET old == IF node \in DOMAIN ns THEN ns[node] ELSE <<>>
    IN  (node :> Append(old, [left |-> left, right |-> right, index |-> index,
                              by |-> by])) @@ ns

\* tree.write_leaf( leaf_index, begin, end )
write_leaf(ls, leaf_index, begin, end, by) ==
    LET old == IF leaf_index \in DOMAIN ls THEN ls[leaf_index] ELSE <<>>
    IN  (leaf_index :> Append(old, [begin |-> begin, end |-> end, by |-> by])) @@ ls

\* ------------------------------------------- cooperative slot allocation
\* cuda::alloc: every worker of a group receives the counter's value before
\* the group's single update plus the requests of the lower lanes of its
\* group; first is the group's lane 0, req the per-worker request
RECURSIVE warp_scan(_, _, _)
warp_scan(req, first, t) ==
    IF t <= first THEN 0 ELSE warp_scan(req, first, t - 1) + req[t - 1]

alloc(req, counter, first, t) == counter + warp_scan(req, first, t)

\* the tasks (task_id) handled by cooperative group w of a launch over count tasks
warp_tasks(w, count) ==
    { t \in w * WARP_SIZE .. (w + 1) * WARP_SIZE - 1 : t < count }

\* the cooperative groups of a launch over count tasks
warps(count) == 0 .. ((count + WARP_SIZE - 1) \div WARP_SIZE) - 1

\* ----------------------------------------------------------- split_kernel
\* task_level never recomputing the level
task_level_as_given(in_task) == in_task.m_input

\* the bit level a task is split at (int32 reading)
task_level(in_task) ==
    IF ~keep_singletons
    THEN find_leading_bit_difference(in_task.m_input,
                                     codes[in_task.m_begin + 1],
                                     codes[in_task.m_end - 1 + 1])
    ELSE in_task.m_input

\* needs_split letting one key more than max_leaf_size through
needs_split_off_by_one(begin, end) == end - begin > max_leaf_size + 1

\* needs_split splitting a range of exactly max_leaf_size keys too
needs_split_at_limit(begin, end) == end - begin >= max_leaf_size

\* check whether the input node really needs to be split
needs_split(begin, end) == end - begin > max_leaf_size

\* how many tasks a split at split_index emits
split_output_count(split_index, begin, end) ==
    IF split_index = begin \/ split_index = end THEN 1 ELSE 2

\* the worker's locals after the split plane search; wraps selects the
\* outcome of an out-of-range shift count.  split_index is read only when
\* output_count is not 0.
split_locals(in_task, wraps) ==
    LET begin == in_task.m_begin
        end   == in_task.m_end
        lvl   == task_level(in_task)
        b     == shift_bit(lvl, wraps)
        split == IF needs_split(begin, end) THEN find_pivot(begin, end, b) ELSE 0
    IN  [node |-> in_task.m_node, begin |-> begin, end |-> end, level |-> lvl,
         split_index  |-> split,
         output_count |-> IF needs_split(begin, end)
                          THEN split_output_count(split, begin, end) ELSE 0]

\* out_task_0 taking the node index of the second task
out_task_0_second_node(l, offset, out_nodes_count) ==
    Split_task(out_nodes_count + offset + 1, l.begin,
               IF l.output_count = 1 THEN l.end ELSE l.split_index, l.level - 1)

\* out_task_0 handing the level on without lowering it
out_task_0_same_level(l, offset, out_nodes_count) ==
    Split_task(out_nodes_count + offset + 0, l.begin,
               IF l.output_count = 1 THEN l.end ELSE l.split_index, l.level)

\* the first task a worker emits
out_task_0(l, offset, out_nodes_count) ==
    Split_task(out_nodes_count + offset + 0, l.begin,
               IF l.output_count = 1 THEN l.end ELSE l.split_index, l.level - 1)

\* out_task_1 handing the level on without lowering it
out_task_1_same_level(l, offset, out_nodes_count) ==
    Split_task(out_nodes_count + offset + 1, l.split_index, l.end, l.level)

\* the second task a worker emits
out_task_1(l, offset, out_nodes_count) ==
    Split_task(out_nodes_count + offset + 1, l.split_index, l.end, l.level - 1)

\* write_out_tasks putting the second task in the slot of the first
write_out_tasks_same_slot(q, l, out_nodes_count) ==
    LET q1 == IF l.output_count >= 1
              THEN (l.offset + 0 :> out_task_0(l, l.offset, out_nodes_count)) @@ q
              ELSE q
    IN  IF l.output_count = 2
        THEN (l.offset + 0 :> out_task_1(l, l.offset, out_nodes_count)) @@ q1
        ELSE q1

\* the writes of one worker to the output queue q
write_out_tasks(q, l, out_nodes_count) ==
    LET q1 == IF l.output_count >= 1
              THEN (l.offset + 0 :> out_task_0(l, l.offset, out_nodes_count)) @@ q
              ELSE q
    IN  IF l.output_count = 2
        THEN (l.offset + 1 :> out_task_1(l, l.offset, out_nodes_count)) @@ q1
        ELSE q1

\* the output queue after the workers t .. last of a group wrote their tasks
RECURSIVE put_tasks(_, _, _, _, _)
put_tasks(q, th, t, last, out_nodes_count) ==
    IF t > last THEN q
    ELSE put_tasks(write_out_tasks(q, th[t], out_nodes_count), th, t + 1, last,
                   out_nodes_count)

\* split_write_node giving the child offset without out_nodes_count
split_write_node_local_offset(ns, l, out_nodes_count) ==
    write_node(ns, l.node,
               IF l.output_count # 0 THEN l.split_index # l.begin ELSE FALSE,
               IF l.output_count # 0 THEN l.split_index # l.end ELSE FALSE,
               IF l.output_count # 0 THEN l.offset ELSE l.leaf_index,
               "split_kernel")

\* split_write_node with the two child flags exchanged
split_write_node_flags_swapped(ns, l, out_nodes_count) ==
    write_node(ns, l.node,
               IF l.output_count # 0 THEN l.split_index # l.end ELSE FALSE,
               IF l.output_count # 0 THEN l.split_index # l.begin ELSE FALSE,
               IF l.output_count # 0 THEN out_nodes_count + l.offset ELSE l.leaf_index,
               "split_kernel")

\* the node a worker writes for its task
split_write_node(ns, l, out_nodes_count) ==
    write_node(ns, l.node,
               IF l.output_count # 0 THEN l.split_index # l.begin ELSE FALSE,
               IF l.output_count # 0 THEN l.split_index # l.end ELSE FALSE,
               IF l.output_count # 0 THEN out_nodes_count + l.offset ELSE l.leaf_index,
               "split_kernel")

\* split_write_leaf taking end as the last key of the range
split_write_leaf_inclusive_end(ls, l) ==
    IF l.output_count = 0
    THEN write_leaf(ls, l.leaf_index, l.begin, l.end - 1, "split_kernel")
    ELSE ls

\* make a leaf if necessary
split_write_leaf(ls, l) ==
    IF l.output_count = 0 THEN write_leaf(ls, l.leaf_index, l.begin, l.end, "split_kernel")
    ELSE ls

RECURSIVE put_nodes(_, _, _, _, _)
put_nodes(ns, th, t, last, out_nodes_count) ==
    IF t > last THEN ns
    ELSE put_nodes(split_write_node(ns, th[t], out_nodes_count), th, t + 1, last,
                   out_nodes_count)

RECURSIVE put_leaves(_, _, _, _)
put_leaves(ls, th, t, last) ==
    IF t > last THEN ls
    ELSE put_leaves(split_write_leaf(ls, th[t]), th, t + 1, last)

\* ------------------------------------------------------ gen_leaves_kernel
gen_leaves_write_node(ns, l) == write_node(ns, l.node, FALSE, FALSE, l.leaf_index, "gen_leaves_kernel")

\* the leaf written at the node's index instead of the leaf's
gen_leaves_write_leaf_at_node(ls, l) ==
    write_leaf(ls, l.node, l.begin, l.end, "gen_leaves_kernel")

\* tree.write_leaf( leaf_index, begin, end ) of gen_leaves_kernel
gen_leaves_write_leaf(ls, l) ==
    write_leaf(ls, l.leaf_index, l.begin, l.end, "gen_leaves_kernel")

RECURSIVE put_leaf_nodes(_, _, _, _)
put_leaf_nodes(ns, th, t, last) ==
    IF t > last THEN ns
    ELSE put_leaf_nodes(gen_leaves_write_node(ns, th[t]), th, t + 1, last)

RECURSIVE put_gen_leaves(_, _, _, _)
put_gen_leaves(ls, th, t, last) ==
    IF t > last THEN ls
    ELSE put_gen_leaves(gen_leaves_write_leaf(ls, th[t]), th, t + 1, last)

\* --------------------------------------------------------------- inputs
\* the two worked scenarios of the build: eight distinct 3-bit keys with
\* max_leaf_size 1, and five identical keys with max_leaf_size 2
Scenarios ==
    { [codes |-> <<0, 1, 2, 3, 4, 5, 6, 7>>, bits |-> 3, max_leaf_size |-> 1,
       keep_singletons |-> FALSE] }
    \cup
    { [codes |-> <<0, 0, 0, 0, 0>>, bits |-> 3, max_leaf_size |-> 2,
       keep_singletons |-> k] : k \in BOOLEAN }

\* every sorted key array of 1..MaxN keys below 2^bits, bits in 0..MaxBits
Inputs ==
    UNION { { [codes |-> c, bits |-> b, max_leaf_size |-> m, keep_singletons |-> k] :
                c \in UNION { SortedSeqs(n, <<0, 2^b - 1>>) : n \in 1 .. MaxN },
                m \in 1 .. MaxLeafSize,
                k \in BOOLEAN }
            : b \in 0 .. MaxBits }

\* no Octree_node call is made during a build
OctreeIdle ==
    /\ m_packed_info = [b \in 1 .. 32 |-> 0]
    /\ octant_in = [mask |-> 0, index |-> 0]
    /\ last_call = [op |-> "none", arg |-> {}, result |-> 0]

\* ------------------------------------------------------------- generate()
\* nothing reserved, nothing queued, nothing written
NothingBuilt ==
    /\ m_task_queues = [q \in 0 .. 1 |-> <<>>]
    /\ queue_size = [q \in 0 .. 1 |-> 0]
    /\ launches = [split |-> 0, gen_leaves |-> 0]
    /\ m_counters = [c \in 0 .. 2 |-> 0]
    /\ in_queue = 0
    /\ out_queue = 1
    /\ n_nodes = 0
    /\ level = 0
    /\ warp_pc = <<>>
    /\ thread = <<>>
    /\ nodes = <<>>
    /\ leaves = <<>>
    /\ reserved_nodes = 0
    /\ reserved_leaves = 0
    /\ m_nodes = 0
    /\ m_leaves = 0

\* the state at the call of generate(): nothing reserved, nothing written
Init ==
    /\ \E i \in Inputs \cup Scenarios :
          /\ codes = i.codes
          /\ bits = i.bits
          /\ max_leaf_size = i.max_leaf_size
          /\ keep_singletons = i.keep_singletons
    /\ pc = "init"
    /\ NothingBuilt
    /\ OctreeIdle

inputs_unchanged == UNCHANGED << codes, bits, max_leaf_size, keep_singletons >>

Max(a, b) == IF a >= b THEN a ELSE b

\* resize_if_needed with the comparison inverted: a queue is never grown
resize_if_needed_inverted(size, n) == IF size > n THEN n ELSE size

\* resize_if_needed( vec, size ): the size of vec afterwards
resize_if_needed(size, n) == IF size < n THEN n ELSE size

\* reservations, queue growth, the seed task and the counters
generate_init ==
    /\ pc = "init"
    /\ reserved_nodes' = Max(reserved_nodes, (n_codes \div max_leaf_size) * 2)
    /\ reserved_leaves' = Max(reserved_leaves, n_codes)
    /\ queue_size' = [q \in 0 .. 1 |-> resize_if_needed(queue_size[q], n_codes)]
    /\ in_queue' = 0
    /\ out_queue' = 1
    /\ m_counters' = [m_counters EXCEPT ![0] = 1, ![1] = 0, ![2] = 0]
    /\ m_task_queues' = [m_task_queues EXCEPT
                           ![0] = (0 :> Split_task(0, 0, n_codes, bits - 1)) @@ @]
    /\ n_nodes' = 1
    /\ level' = bits - 1
    /\ pc' = "loop"
    /\ inputs_unchanged
    /\ UNCHANGED launches
    /\ UNCHANGED << warp_pc, thread, nodes, leaves, m_nodes, m_leaves, octree_vars >>

\* the loop test leaving the loop before level 0 is split
loop_continues_above_zero == m_counters[in_queue] # 0 /\ level > 0

\* the loop test letting one more pass run after level 0
loop_continues_below_zero == m_counters[in_queue] # 0 /\ level >= -1

\* loop until there's tasks left in the input queue
loop_continues == m_counters[in_queue] # 0 /\ level >= 0

\* one pass of the loop up to the launch of split_kernel
iterate_launch ==
    /\ pc = "loop"
    /\ loop_continues
    /\ reserved_nodes' = Max(reserved_nodes, n_nodes + m_counters[in_queue] * 2)
    /\ m_counters' = [m_counters EXCEPT ![out_queue] = 0]
    /\ warp_pc' = [w \in warps(m_counters[in_queue]) |-> 0]
    /\ thread' = <<>>
    /\ pc' = "split"
    /\ inputs_unchanged
    /\ launches' = [launches EXCEPT !.split = @ + 1]
    /\ UNCHANGED queue_size
    /\ UNCHANGED << m_task_queues, in_queue, out_queue, n_nodes, level, nodes, leaves,
                    reserved_leaves, m_nodes, m_leaves, octree_vars >>

\* a cooperative group of split_kernel: from the load of its tasks to the
\* writes of the tasks it emits
split_alloc_tasks(w) ==
    /\ pc = "split"
    /\ w \in DOMAIN warp_pc
    /\ warp_pc[w] = 0
    /\ \E wraps \in BOOLEAN :
         LET T     == warp_tasks(w, m_counters[in_queue])
             first == w * WARP_SIZE
             in    == m_task_queues[in_queue]
             loc   == [t \in T |-> split_locals(in[t], wraps)]
             req   == [t \in T |-> loc[t].output_count]
             th    == [t \in T |->
                         [node |-> loc[t].node, begin |-> loc[t].begin,
                          end |-> loc[t].end, level |-> loc[t].level,
                          split_index |-> loc[t].split_index,
                          output_count |-> loc[t].output_count,
                          offset |-> alloc(req, m_counters[out_queue], first, t),
                          leaf_index |-> -1]]
             last  == first + Cardinality(T) - 1
         IN  /\ m_counters' = [m_counters EXCEPT
                                 ![out_queue] = @ + warp_scan(req, first, last + 1)]
             /\ m_task_queues' = [m_task_queues EXCEPT
                                    ![out_queue] = put_tasks(@, th, first, last, n_nodes)]
             /\ thread' = th @@ thread
    /\ warp_pc' = [warp_pc EXCEPT ![w] = 1]
    /\ inputs_unchanged
    /\ UNCHANGED << queue_size, launches >>
    /\ UNCHANGED << pc, in_queue, out_queue, n_nodes, level, nodes, leaves,
                    reserved_nodes, reserved_leaves, m_nodes, m_leaves, octree_vars >>

\* the same group: the leaf slots, the node writes and the leaf writes
split_write_nodes(w) ==
    /\ pc = "split"
    /\ w \in DOMAIN warp_pc
    /\ warp_pc[w] = 1
    /\ LET T     == warp_tasks(w, m_counters[in_queue])
           first == w * WARP_SIZE
           last  == first + Cardinality(T) - 1
           req   == [t \in T |-> IF thread[t].output_count = 0 THEN 1 ELSE 0]
           th    == [t \in T |-> [thread[t] EXCEPT
                                    !.leaf_index = alloc(req, m_counters[2], first, t)]]
       IN  /\ m_counters' = [m_counters EXCEPT ![2] = @ + warp_scan(req, first, last + 1)]
           /\ nodes' = put_nodes(nodes, th, first, last, n_nodes)
           /\ leaves' = put_leaves(leaves, th, first, last)
           /\ thread' = th @@ thread
    /\ warp_pc' = [warp_pc EXCEPT ![w] = 2]
    /\ inputs_unchanged
    /\ UNCHANGED << queue_size, launches >>
    /\ UNCHANGED << pc, m_task_queues, in_queue, out_queue, n_nodes, level,
                    reserved_nodes, reserved_leaves, m_nodes, m_leaves, octree_vars >>

launch_finished == \A w \in DOMAIN warp_pc : warp_pc[w] = 2

\* after the launch: the node count, the queue swap, the level
iterate_finish ==
    /\ pc = "split"
    /\ launch_finished
    /\ n_nodes' = n_nodes + m_counters[out_queue]
    /\ in_queue' = out_queue
    /\ out_queue' = in_queue
    /\ level' = level - 1
    /\ pc' = "loop"
    /\ inputs_unchanged
    /\ UNCHANGED << queue_size, launches >>
    /\ UNCHANGED << m_task_queues, m_counters, warp_pc, thread, nodes, leaves,
                    reserved_nodes, reserved_leaves, m_nodes, m_leaves, octree_vars >>

\* the loop is left with tasks in the input queue: launch gen_leaves_kernel
finalize_launch ==
    /\ pc = "loop"
    /\ ~loop_continues
    /\ m_counters[in_queue] # 0
    /\ warp_pc' = [w \in warps(m_counters[in_queue]) |-> 0]
    /\ thread' = <<>>
    /\ pc' = "gen_leaves"
    /\ inputs_unchanged
    /\ launches' = [launches EXCEPT !.gen_leaves = @ + 1]
    /\ UNCHANGED queue_size
    /\ UNCHANGED << m_task_queues, m_counters, in_queue, out_queue, n_nodes, level,
                    nodes, leaves, reserved_nodes, reserved_leaves, m_nodes, m_leaves,
                    octree_vars >>

\* a cooperative group of gen_leaves_kernel
gen_leaves(w) ==
    /\ pc = "gen_leaves"
    /\ w \in DOMAIN warp_pc
    /\ warp_pc[w] = 0
    /\ LET T     == warp_tasks(w, m_counters[in_queue])
           first == w * WARP_SIZE
           last  == first + Cardinality(T) - 1
           in    == m_task_queues[in_queue]
           req   == [t \in T |-> 1]
           th    == [t \in T |->
                       [node |-> in[t].m_node, begin |-> in[t].m_begin,
                        end |-> in[t].m_end,
                        leaf_index |-> alloc(req, m_counters[2], first, t)]]
       IN  /\ m_counters' = [m_counters EXCEPT ![2] = @ + warp_scan(req, first, last + 1)]
           /\ nodes' = put_leaf_nodes(nodes, th, first, last)
           /\ leaves' = put_gen_leaves(leaves, th, first, last)
           /\ thread' = th @@ thread
    /\ warp_pc' = [warp_pc EXCEPT ![w] = 2]
    /\ inputs_unchanged
    /\ UNCHANGED << queue_size, launches >>
    /\ UNCHANGED << pc, m_task_queues, in_queue, out_queue, n_nodes, level,
                    reserved_nodes, reserved_leaves, m_nodes, m_leaves, octree_vars >>

\* the node and leaf counts are recorded
generate_done ==
    /\ \/ pc = "loop" /\ ~loop_continues /\ m_counters[in_queue] = 0
       \/ pc = "gen_leaves" /\ launch_finished
    /\ m_nodes' = n_nodes
    /\ m_leaves' = m_counters[2]
    /\ pc' = "done"
    /\ inputs_unchanged
    /\ UNCHANGED << queue_size, launches >>
    /\ UNCHANGED << m_task_queues, m_counters, in_queue, out_queue, n_nodes, level,
                    warp_pc, thread, nodes, leaves, reserved_nodes, reserved_leaves,
                    octree_vars >>

Next ==
    \/ generate_init
    \/ iterate_launch
    \/ \E w \in DOMAIN warp_pc : split_alloc_tasks(w)
    \/ \E w \in DOMAIN warp_pc : split_write_nodes(w)
    \/ iterate_finish
    \/ finalize_launch
    \/ \E w \in DOMAIN warp_pc : gen_leaves(w)
    \/ generate_done

Spec == Init /\ [][Next]_vars

\* generate() is sequential host code and every launch is waited for
\* (cudaThreadSynchronize), so a step that can be taken is taken
FairSpec == Spec /\ WF_vars(Next)

\* ====================================================================
\* Properties of the build
\* ====================================================================
Done == pc = "done"

\* the record a node slot holds, the record a leaf slot holds
node_at(k) == nodes[k][Len(nodes[k])]
leaf_at(i) == leaves[i][Len(leaves[i])]

\* every write_leaf call made so far, as <<leaf index, position in its history>>
LeafWrites == UNION { { <<i, j>> : j \in 1 .. Len(leaves[i]) } : i \in DOMAIN leaves }
leaf_write(w) == leaves[w[1]][w[2]]

\* every write_node call made so far
NodeWrites == UNION { { <<k, j>> : j \in 1 .. Len(nodes[k]) } : k \in DOMAIN nodes }
node_write(w) == nodes[w[1]][w[2]]

\* C1: when generate() has finished, the ranges given to write_leaf (by
\* split_kernel and gen_leaves_kernel together) partition [0, n): each is a
\* non-empty range inside [0, n) and every key index lies in the range of
\* exactly one write_leaf call, whatever the order of the groups of a level.
PartitionProperty ==
    Done =>
        /\ \A w \in LeafWrites :
              /\ 0 <= leaf_write(w).begin
              /\ leaf_write(w).begin < leaf_write(w).end
              /\ leaf_write(w).end <= n_codes
        /\ \A k \in 0 .. n_codes - 1 :
              Cardinality({ w \in LeafWrites :
                              leaf_write(w).begin <= k /\ k < leaf_write(w).end }) = 1

\* a finished build with leaves from both kernels
PartitionWitness ==
    /\ Done
    /\ Cardinality(LeafWrites) >= 3
    /\ \E w \in LeafWrites : leaf_write(w).by = "split_kernel"
    /\ \E w \in LeafWrites : leaf_write(w).by = "gen_leaves_kernel"

\* the tasks of the running split_kernel launch whose node has been written
WrittenTasks ==
    { t \in DOMAIN thread : warp_pc[t \div WARP_SIZE] = 2 }

\* C2: for every node split_kernel writes as internal for a task over
\* [begin,end), the tasks it emitted sit in consecutive slots of the output
\* queue, carry the consecutive node indices starting at the written child
\* offset out_nodes_count + offset, and cover [begin,split_index) and
\* [split_index,end) when there are two, [begin,end) when there is one.
ChildrenCoverParent ==
    pc = "split" =>
        \A t \in WrittenTasks :
            LET in_task == m_task_queues[in_queue][t]
                l       == thread[t]
                out     == m_task_queues[out_queue]
                written == node_at(in_task.m_node)
            IN  l.output_count # 0 =>
                  /\ written.left \/ written.right
                  /\ written.index = n_nodes + l.offset
                  /\ \A k \in 0 .. l.output_count - 1 :
                        /\ l.offset + k \in DOMAIN out
                        /\ out[l.offset + k].m_node = written.index + k
                  /\ out[l.offset].m_begin = in_task.m_begin
                  /\ out[l.offset + l.output_count - 1].m_end = in_task.m_end
                  /\ l.output_count = 2 =>
                        /\ out[l.offset].m_end = l.split_index
                        /\ out[l.offset + 1].m_begin = l.split_index
                        /\ in_task.m_begin < l.split_index
                        /\ l.split_index < in_task.m_end

\* a launch, not the first, in which one task emitted two tasks and another one
ChildrenCoverParentWitness ==
    /\ pc = "split"
    /\ n_nodes > 1
    /\ \E t \in WrittenTasks : thread[t].output_count = 2 /\ thread[t].offset > 0
    /\ \E t \in WrittenTasks : thread[t].output_count = 1

\* the keys of [begin, end) are all equal
all_equal(begin, end) == \A i, j \in begin + 1 .. end : codes[i] = codes[j]

\* C3: every leaf written by split_kernel has at most max_leaf_size keys,
\* and every leaf with more than max_leaf_size keys is written by
\* gen_leaves_kernel over a range of equal keys (keys sorted, below 2^bits).
LeafSizeBound ==
    \A w \in LeafWrites :
        LET lf == leaf_write(w)
        IN  /\ lf.by = "split_kernel" => lf.end - lf.begin <= max_leaf_size
            /\ lf.end - lf.begin > max_leaf_size =>
                  /\ lf.by = "gen_leaves_kernel"
                  /\ all_equal(lf.begin, lf.end)

\* a build with an oversized leaf next to a leaf written by split_kernel
LeafSizeBoundWitness ==
    /\ Done
    /\ \E w \in LeafWrites : leaf_write(w).end - leaf_write(w).begin > max_leaf_size
    /\ \E w \in LeafWrites : leaf_write(w).by = "split_kernel"

\* the tree stored under node k with the node and leaf indices dropped: a
\* leaf is its key range, an internal node its two child flags and the
\* trees of its children (one child at the child offset when one flag is
\* set, two consecutive children when both are); fuel bounds the descent
RECURSIVE Canon(_, _)
Canon(k, fuel) ==
    IF fuel = 0 \/ k \notin DOMAIN nodes THEN << "unwritten", k >>
    ELSE LET r == node_at(k)
         IN  IF ~r.left /\ ~r.right
             THEN IF r.index \in DOMAIN leaves
                  THEN << "leaf", leaf_at(r.index).begin, leaf_at(r.index).end >>
                  ELSE << "unwritten leaf", r.index >>
             ELSE << "node", r.left, r.right,
                     IF r.left /\ r.right
                     THEN << Canon(r.index, fuel - 1), Canon(r.index + 1, fuel - 1) >>
                     ELSE << Canon(r.index, fuel - 1) >> >>

\* the same tree computed from the input alone: the task is split as a
\* worker splits it while the loop of generate() has passes left (lvl >= 0),
\* and becomes a leaf otherwise
RECURSIVE RefTree(_, _, _)
RefTree(task, lvl, wraps) ==
    IF lvl < 0 THEN << "leaf", task.m_begin, task.m_end >>
    ELSE LET l == split_locals(task, wraps)
         IN  IF l.output_count = 0 THEN << "leaf", task.m_begin, task.m_end >>
             ELSE << "node", l.split_index # l.begin, l.split_index # l.end,
                     IF l.output_count = 2
                     THEN << RefTree(out_task_0(l, 0, 0), lvl - 1, wraps),
                             RefTree(out_task_1(l, 0, 0), lvl - 1, wraps) >>
                     ELSE << RefTree(out_task_0(l, 0, 0), lvl - 1, wraps) >> >>

\* C4: the tree a finished build stores, read without its node and leaf
\* indices, is the tree determined by (codes, bits, max_leaf_size,
\* keep_singletons) alone; so two builds on the same input give the same
\* leaf ranges and the same parent/child relation under every scheduling.
Determinism ==
    Done =>
        \A wraps \in BOOLEAN :
            Canon(0, Cardinality(NodeWrites) + 1)
                = RefTree(Split_task(0, 0, n_codes, bits - 1), bits - 1, wraps)

\* a finished build whose leaf slots were handed out against the key order,
\* with one-child and two-child nodes
DeterminismWitness ==
    /\ Done
    /\ \E i, j \in DOMAIN leaves : i < j /\ leaf_at(i).begin > leaf_at(j).begin
    /\ \E k \in DOMAIN nodes : node_at(k).left /\ node_at(k).right
    /\ \E k \in DOMAIN nodes : node_at(k).left # node_at(k).right

\* the whole key array is one run of equal keys, longer than max_leaf_size
IdenticalKeys == all_equal(0, n_codes) /\ n_codes > max_leaf_size

DistinctKeys == \A i, j \in 1 .. n_codes : i # j => codes[i] # codes[j]

\* the depths of the leaves of the tree stored under node k
RECURSIVE LeafDepths(_, _, _)
LeafDepths(k, d, fuel) ==
    IF fuel = 0 \/ k \notin DOMAIN nodes THEN { -1 }
    ELSE LET r == node_at(k)
         IN  IF ~r.left /\ ~r.right THEN { d }
             ELSE LeafDepths(r.index, d + 1, fuel - 1)
                  \cup (IF r.left /\ r.right
                        THEN LeafDepths(r.index + 1, d + 1, fuel - 1) ELSE {})

InternalNodes == { k \in DOMAIN nodes : node_at(k).left \/ node_at(k).right }

\* C6: for n pairwise distinct sorted keys below 2^bits, max_leaf_size 1 and
\* keep_singletons off, the build writes n leaves of one key each and n-1
\* internal nodes with both children, 2n-1 nodes in all; keys 0..7 at 3 bits
\* give 15 nodes with all 8 leaves at depth 3.
DistinctKeysFullTree ==
    (Done /\ DistinctKeys /\ max_leaf_size = 1 /\ ~keep_singletons) =>
        /\ Cardinality(LeafWrites) = n_codes
        /\ m_leaves = n_codes
        /\ \A w \in LeafWrites : leaf_write(w).end - leaf_write(w).begin = 1
        /\ Cardinality(InternalNodes) = n_codes - 1
        /\ \A k \in InternalNodes : node_at(k).left /\ node_at(k).right
        /\ m_nodes = 2 * n_codes - 1
        /\ DOMAIN nodes = 0 .. m_nodes - 1
        /\ codes = << 0, 1, 2, 3, 4, 5, 6, 7 >> =>
              /\ m_nodes = 15
              /\ Cardinality(InternalNodes) = 7
              /\ LeafDepths(0, 0, 16) = { 3 }

\* the scenario: keys 0..7 at 3 bits, built to the end
DistinctKeysWitness ==
    /\ Done
    /\ codes = << 0, 1, 2, 3, 4, 5, 6, 7 >>
    /\ bits = 3 /\ max_leaf_size = 1 /\ ~keep_singletons
    /\ Cardinality(LeafWrites) = 8

\* C7: when max_leaf_size >= n (bits >= 1), whatever the keys and
\* keep_singletons, the build makes one write_leaf call, for [0,n), writes
\* the root as a leaf node from split_kernel, puts no task in the output
\* queue and records node count 1 and leaf count 1.
SingleLeafWhenFits ==
    (Done /\ max_leaf_size >= n_codes /\ bits >= 1) =>
        /\ LeafWrites = { << 0, 1 >> }
        /\ leaf_at(0).begin = 0 /\ leaf_at(0).end = n_codes
        /\ NodeWrites = { << 0, 1 >> }
        /\ ~node_at(0).left /\ ~node_at(0).right
        /\ node_at(0).index = 0
        /\ node_at(0).by = "split_kernel"
        /\ DOMAIN m_task_queues[1] = {}
        /\ DOMAIN m_task_queues[0] = { 0 }
        /\ m_counters[0] = 1 /\ m_counters[1] = 0
        /\ m_nodes = 1
        /\ m_leaves = 1

\* a finished build over several keys, not all equal, that fit one leaf
SingleLeafWhenFitsWitness ==
    /\ Done
    /\ max_leaf_size >= n_codes
    /\ bits >= 1
    /\ n_codes >= 2
    /\ codes[1] # codes[n_codes]

\* ====================================================================
\* Octree_node_base, Octree_node (nih/octree/octree_inline.h)
\* ====================================================================
\* the 32 bits of the uint32 x (x below 2^31, so that bit 31 is 0)
uint32(x) == [b \in 1 .. 32 |-> IF b = 32 THEN 0 ELSE (x \div 2 ^ (b - 1)) % 2]

\* the number whose bits are v[1..n] (n at most 31 set bits wide)
RECURSIVE value(_, _)
value(v, n) == IF n = 0 THEN 0 ELSE v[n] * 2 ^ (n - 1) + value(v, n - 1)

\* the word v taken as a condition: true unless v is 0
nonzero(v) == \E b \in 1 .. 32 : v[b] = 1

\* v << s, v >> s, v & w, v | w on 32-bit words, s in [0,32)
shl(v, s) == [b \in 1 .. 32 |-> IF b - s >= 1 THEN v[b - s] ELSE 0]
shr(v, s) == [b \in 1 .. 32 |-> IF b + s <= 32 THEN v[b + s] ELSE 0]
bit_and(v, w) == [b \in 1 .. 32 |-> v[b] * w[b]]
bit_or(v, w) == [b \in 1 .. 32 |-> IF v[b] = 1 \/ w[b] = 1 THEN 1 ELSE 0]

\* the conversion uint8( v ): the low 8 bits
uint8(v) == [b \in 1 .. 32 |-> IF b <= 8 THEN v[b] ELSE 0]

\* popc / __popc: the number of set bits
popc(v) == Cardinality({ b \in 1 .. 32 : v[b] = 1 })

\* the literals 0x000000FFu and 0xFFFFFF00u
x000000FF == [b \in 1 .. 32 |-> IF b <= 8 THEN 1 ELSE 0]
xFFFFFF00 == [b \in 1 .. 32 |-> IF b <= 8 THEN 0 ELSE 1]

\* the sentinel for a non-active octant (the uint32 of all ones, int32 reading)
kInvalid == -1

\* leaf constructor
Octree_node_base_leaf(leaf_index) == shl(uint32(leaf_index), 8)

\* full constructor
Octree_node_base_full(mask, index) == bit_and(shl(uint32(index), 8), uint32(mask))

get_child_mask(packed) == bit_and(packed, x000000FF)

is_leaf(packed) == IF nonzero(get_child_mask(packed)) THEN FALSE ELSE TRUE

set_child_mask(packed, mask) == bit_or(bit_and(packed, xFFFFFF00), uint32(mask))

set_child_offset(packed, child) == bit_or(bit_and(packed, x000000FF), shl(uint32(child), 8))

get_child_offset(packed) == shr(packed, 8)

is_active(packed, i) ==
    IF nonzero(bit_and(packed, shl(uint32(1), i))) THEN TRUE ELSE FALSE

get_child(packed, i) == value(shr(packed, 8), 24) + i

\* Octree_node<host_domain>::get_octant with the popc argument left untruncated
get_octant_host_untruncated(packed, i) ==
    LET mask == get_child_mask(packed)
    IN  IF nonzero(bit_and(mask, shl(uint32(1), i)))
        THEN value(get_child_offset(packed), 24) + popc(shl(mask, 8 - i))
        ELSE kInvalid

\* Octree_node<host_domain>::get_octant, i in [0,8)
get_octant_host(packed, i) ==
    LET mask == get_child_mask(packed)
    IN  IF nonzero(bit_and(mask, shl(uint32(1), i)))
        THEN value(get_child_offset(packed), 24) + popc(uint8(shl(mask, 8 - i)))
        ELSE kInvalid

\* Octree_node<device_domain>::get_octant, i in [0,8)
get_octant_device(packed, i) ==
    LET mask == get_child_mask(packed)
    IN  IF nonzero(bit_and(mask, shl(uint32(1), i)))
        THEN value(get_child_offset(packed), 24) + popc(shl(mask, 8 - i))
        ELSE kInvalid

\* the 8-bit masks and the 24-bit child offsets the calls are made with
Masks == 0 .. 255
Offsets == { 0, 1, 2 ^ 24 - 1 }
Octants == 0 .. 7

\* no build runs while the node is exercised
BintreeIdle ==
    /\ codes = <<>>
    /\ bits = 0
    /\ max_leaf_size = 1
    /\ keep_singletons = FALSE
    /\ pc = "idle"
    /\ NothingBuilt

\* a node not yet constructed, and the arguments of the calls to come
InitOctree ==
    /\ BintreeIdle
    /\ m_packed_info = [b \in 1 .. 32 |-> 0]
    /\ \E m \in Masks, o \in Offsets : octant_in = [mask |-> m, index |-> o]
    /\ last_call = [op |-> "none", arg |-> {}, result |-> 0]

call_Octree_node_base_leaf ==
    /\ m_packed_info' = Octree_node_base_leaf(octant_in.index)
    /\ last_call' = [op |-> "Octree_node_base(leaf_index)", arg |-> {}, result |-> 0]
    /\ UNCHANGED << octant_in, bintree_vars >>

call_Octree_node_base_full ==
    /\ m_packed_info' = Octree_node_base_full(octant_in.mask, octant_in.index)
    /\ last_call' = [op |-> "Octree_node_base(mask,index)", arg |-> {}, result |-> 0]
    /\ UNCHANGED << octant_in, bintree_vars >>

call_set_child_mask ==
    /\ m_packed_info' = set_child_mask(m_packed_info, octant_in.mask)
    /\ last_call' = [op |-> "set_child_mask", arg |-> {}, result |-> 0]
    /\ UNCHANGED << octant_in, bintree_vars >>

call_set_child_offset ==
    /\ m_packed_info' = set_child_offset(m_packed_info, octant_in.index)
    /\ last_call' = [op |-> "set_child_offset", arg |-> {}, result |-> 0]
    /\ UNCHANGED << octant_in, bintree_vars >>

call_is_leaf ==
    /\ last_call' = [op |-> "is_leaf", arg |-> {}, result |-> is_leaf(m_packed_info)]
    /\ UNCHANGED << m_packed_info, octant_in, bintree_vars >>

call_get_child_mask ==
    /\ last_call' = [op |-> "get_child_mask", arg |-> {},
                     result |-> value(get_child_mask(m_packed_info), 8)]
    /\ UNCHANGED << m_packed_info, octant_in, bintree_vars >>

call_get_child_offset ==
    /\ last_call' = [op |-> "get_child_offset", arg |-> {},
                     result |-> value(get_child_offset(m_packed_info), 24)]
    /\ UNCHANGED << m_packed_info, octant_in, bintree_vars >>

\* the four octant queries are made for every octant i in [0,8) in turn;
\* result[i] is what the call with argument i returned
call_is_active ==
    /\ last_call' = [op |-> "is_active", arg |-> Octants,
                     result |-> [i \in Octants |-> is_active(m_packed_info, i)]]
    /\ UNCHANGED << m_packed_info, octant_in, bintree_vars >>

call_get_child ==
    /\ last_call' = [op |-> "get_child", arg |-> Octants,
                     result |-> [i \in Octants |-> get_child(m_packed_info, i)]]
    /\ UNCHANGED << m_packed_info, octant_in, bintree_vars >>

call_get_octant_host ==
    /\ last_call' = [op |-> "get_octant<host_domain>", arg |-> Octants,
                     result |-> [i \in Octants |-> get_octant_host(m_packed_info, i)]]
    /\ UNCHANGED << m_packed_info, octant_in, bintree_vars >>

call_get_octant_device ==
    /\ last_call' = [op |-> "get_octant<device_domain>", arg |-> Octants,
                     result |-> [i \in Octants |-> get_octant_device(m_packed_info, i)]]
    /\ UNCHANGED << m_packed_info, octant_in, bintree_vars >>

NextOctree ==
    \/ call_Octree_node_base_leaf
    \/ call_Octree_node_base_full
    \/ call_set_child_mask
    \/ call_set_child_offset
    \/ call_is_leaf
    \/ call_get_child_mask
    \/ call_get_child_offset
    \/ call_is_active
    \/ call_get_child
    \/ call_get_octant_host
    \/ call_get_octant_device

SpecOctree == InitOctree /\ [][NextOctree]_vars

\* ====================================================================
\* Properties of the node encoding
\* ====================================================================
\* C8 as claimed: the node constructed from an 8-bit mask m and a 24-bit
\* child offset o holds (o << 8) | m, so that right after the constructor
\* get_child_mask() = m, get_child_offset() = o and, for m # 0, is_leaf()
\* is false.
NodeConstructorPacks ==
    last_call.op = "Octree_node_base(mask,index)" =>
        /\ m_packed_info = bit_or(shl(uint32(octant_in.index), 8), uint32(octant_in.mask))
        /\ value(get_child_mask(m_packed_info), 8) = octant_in.mask
        /\ value(get_child_offset(m_packed_info), 24) = octant_in.index
        /\ octant_in.mask # 0 => ~is_leaf(m_packed_info)

\* the set bits of the 8-bit number mask strictly below position i
bits_below(mask, i) == { j \in 0 .. i - 1 : (mask \div 2 ^ j) % 2 = 1 }

\* C9: on the host variant, for every mask, offset and i in [0,8),
\* get_octant(i) is kInvalid iff bit i of the mask is unset, and otherwise
\* offset + the number of set mask bits strictly below i.
OctantLookupHost ==
    last_call.op = "get_octant<host_domain>" =>
        LET mask   == value(get_child_mask(m_packed_info), 8)
            offset == value(get_child_offset(m_packed_info), 24)
        IN  \A i \in Octants :
              /\ last_call.result[i] = kInvalid <=> (mask \div 2 ^ i) % 2 = 0
              /\ (mask \div 2 ^ i) % 2 = 1 =>
                    last_call.result[i] = offset + Cardinality(bits_below(mask, i))

\* the lookup on a node with mask 10101101b and the largest offset
OctantLookupHostWitness ==
    /\ last_call.op = "get_octant<host_domain>"
    /\ value(get_child_mask(m_packed_info), 8) = 173
    /\ value(get_child_offset(m_packed_info), 24) = 2 ^ 24 - 1
    /\ last_call.result[5] = 2 ^ 24 - 1 + 3
    /\ last_call.result[1] = kInvalid

\* ====================================================================
\* Properties of the slot allocation
\* ====================================================================
\* the slots of the output queue claimed by task t of the running launch
claimed(t) == thread[t].offset .. thread[t].offset + thread[t].output_count - 1

\* C10: within one split_kernel launch, under every interleaving of the
\* groups, the slot ranges [offset, offset + output_count) claimed by
\* different tasks are pairwise disjoint and cover exactly [0, out_tasks_count);
\* every claimed slot holds the task of its claimant (none was overwritten)
\* and the node indices out_nodes_count + offset + k are pairwise distinct.
SlotsDisjoint ==
    pc = "split" =>
        LET out == m_task_queues[out_queue]
        IN  /\ \A t, u \in DOMAIN thread : t # u => claimed(t) \cap claimed(u) = {}
            /\ UNION { claimed(t) : t \in DOMAIN thread } = 0 .. m_counters[out_queue] - 1
            /\ \A t \in DOMAIN thread : \A s \in claimed(t) :
                  /\ s \in DOMAIN out
                  /\ out[s].m_node = n_nodes + s
                  /\ thread[t].begin <= out[s].m_begin
                  /\ out[s].m_end <= thread[t].end
                  /\ s = thread[t].offset => out[s].m_begin = thread[t].begin
                  /\ s = thread[t].offset + thread[t].output_count - 1
                        => out[s].m_end = thread[t].end
            /\ \A s, r \in 0 .. m_counters[out_queue] - 1 :
                  s # r => out[s].m_node # out[r].m_node

\* a finished launch in which a later group claimed its slots first
SlotsDisjointWitness ==
    /\ pc = "split"
    /\ launch_finished
    /\ \E t, u \in DOMAIN thread :
          /\ t < u
          /\ thread[t].output_count = 2
          /\ thread[u].output_count >= 1
          /\ thread[t].offset > thread[u].offset

\* ====================================================================
\* Properties of the node, task and leaf storage
\* ====================================================================
\* C11: over a whole build every node index in [0, m_nodes) receives exactly
\* one write_node call, no index at or above the node count is written, and
\* no node is written a second time (every task put in a queue is consumed
\* by one kernel, once).
NodesWrittenOnce ==
    /\ \A k \in DOMAIN nodes : Len(nodes[k]) = 1 /\ 0 <= k /\ k < n_nodes
    /\ Done => m_nodes = n_nodes /\ DOMAIN nodes = 0 .. m_nodes - 1

\* a finished build of five nodes or more, written by both kernels
NodesWrittenOnceWitness ==
    /\ Done
    /\ m_nodes >= 5
    /\ \E k \in DOMAIN nodes : node_at(k).by = "split_kernel"
    /\ \E k \in DOMAIN nodes : node_at(k).by = "gen_leaves_kernel"

\* C12: at every level of every build the tasks written to a queue stay
\* within the n_codes slots both queues are grown to, no task count exceeds
\* n_codes, and the leaf counter and the leaves written stay within the
\* n_codes leaves reserved.
WithinCapacity ==
    pc \notin { "init", "idle" } =>
        /\ \A q \in 0 .. 1 :
              /\ queue_size[q] >= n_codes
              /\ m_counters[q] <= n_codes
              /\ \A slot \in DOMAIN m_task_queues[q] : 0 <= slot /\ slot < queue_size[q]
        /\ reserved_leaves >= n_codes
        /\ m_counters[2] <= n_codes
        /\ \A i \in DOMAIN leaves : 0 <= i /\ i < reserved_leaves

\* a launch that fills the output queue to its last slot
WithinCapacityWitness ==
    /\ pc = "split"
    /\ n_codes >= 4
    /\ m_counters[out_queue] = n_codes
    /\ n_codes - 1 \in DOMAIN m_task_queues[out_queue]

\* C13 as claimed: whenever write_node is called with node index k, k is
\* smaller than the largest argument given so far to tree.reserve_nodes
\* (reserve_nodes is not called between a write and the state that shows it).
NodeWritesReserved ==
    \A k \in DOMAIN nodes : k < reserved_nodes

\* C14: every build terminates; generate() launches split_kernel at most
\* `bits` times and gen_leaves_kernel at most once, the latter exactly when
\* tasks are pending once level is below 0, and at the end every task that
\* was put in a queue has had its node written.
BuildTerminates ==
    /\ <>Done
    /\ [](launches.split <= bits /\ launches.gen_leaves <= 1)
    /\ [](pc = "gen_leaves" =>
             launches.gen_leaves = 1 /\ level < 0 /\ m_counters[in_queue] # 0)
    /\ [](Done =>
             /\ launches.gen_leaves = 1 <=> (level < 0 /\ m_counters[in_queue] # 0)
             /\ launches.gen_leaves = 0 <=> m_counters[in_queue] = 0
             /\ \A q \in 0 .. 1 : \A slot \in DOMAIN m_task_queues[q] :
                   m_task_queues[q][slot].m_node \in DOMAIN nodes
             /\ DOMAIN nodes = 0 .. n_nodes - 1)

\* a finished build that took `bits` launches of split_kernel and one of
\* gen_leaves_kernel
BuildTerminatesWitness ==
    /\ Done
    /\ bits >= 2
    /\ launches.split = bits
    /\ launches.gen_leaves = 1

\* the tasks of the running split_kernel launch that have emitted their
\* child tasks
EmittedTasks ==
    { t \in DOMAIN thread : warp_pc[t \div WARP_SIZE] >= 1 }

\* the child tasks task t of the running launch has put in the output queue
children(t) ==
    { m_task_queues[out_queue][thread[t].offset + j] :
        j \in 0 .. thread[t].output_count - 1 }

\* C15: every task in a task queue (the seed and every task split_kernel
\* emits) has begin < end, and the level of every child task is strictly
\* smaller than the level of the task that emitted it (levels read as
\* int32, as generate() and find_leading_bit_difference read them).
TasksWellFormed ==
    /\ \A q \in 0 .. 1 : \A slot \in DOMAIN m_task_queues[q] :
          LET task == m_task_queues[q][slot]
          IN  0 <= task.m_begin /\ task.m_begin < task.m_end /\ task.m_end <= n_codes
    /\ pc = "split" =>
          \A t \in EmittedTasks : \A c \in children(t) :
             c.m_input < m_task_queues[in_queue][t].m_input

\* a task at level 0 that has emitted two child tasks
TasksWellFormedWitness ==
    /\ pc = "split"
    /\ \E t \in EmittedTasks :
          /\ thread[t].output_count = 2
          /\ m_task_queues[in_queue][t].m_input = 0
          /\ Cardinality(children(t)) = 2

\* C16 as claimed: with keep_singletons disabled every node written has
\* either no child flagged or both the left and the right child flagged.
NoSingleChildNodes ==
    ~keep_singletons =>
        \A w \in NodeWrites : node_write(w).left = node_write(w).right

\* C19 as claimed: whenever split_kernel runs find_pivot with the mask
\* 1u << level, level lies in [0, bits-1].
PivotLevelInRange ==
    pc = "split" =>
        \A t \in DOMAIN thread :
           needs_split(thread[t].begin, thread[t].end) =>
              0 <= thread[t].level /\ thread[t].level <= bits - 1

\* C17 as claimed: the device variant of get_octant agrees with the host
\* variant: for every mask, offset and i in [0,8) it is kInvalid iff bit i
\* of the mask is unset, and otherwise offset + the number of set mask bits
\* strictly below i, counting no bit at or above position i.
OctantLookupDevice ==
    last_call.op = "get_octant<device_domain>" =>
        LET mask   == value(get_child_mask(m_packed_info), 8)
            offset == value(get_child_offset(m_packed_info), 24)
        IN  \A i \in Octants :
              /\ last_call.result[i] = get_octant_host(m_packed_info, i)
              /\ last_call.result[i] = kInvalid <=> (mask \div 2 ^ i) % 2 = 0
              /\ (mask \div 2 ^ i) % 2 = 1 =>
                    last_call.result[i] = offset + Cardinality(bits_below(mask, i))

\* the nodes written as leaves
LeafNodes == { k \in DOMAIN nodes : ~node_at(k).left /\ ~node_at(k).right }

\* the tasks of the running launch (of either kernel) that became a leaf
\* and whose writes are done
LeafTasks ==
    { t \in DOMAIN thread :
        /\ warp_pc[t \div WARP_SIZE] = 2
        /\ pc = "split" => thread[t].output_count = 0 }

\* C18: over a whole build the leaf indices taken from the leaf counter by
\* split_kernel (at every level) and by gen_leaves_kernel are pairwise
\* distinct and fill [0, m_leaves): every leaf index is written by
\* write_leaf once, and every node written as a leaf references a leaf
\* index of its own whose (begin,end) is the range of the node's task.
LeavesWrittenOnce ==
    /\ \A i \in DOMAIN leaves : Len(leaves[i]) = 1
    /\ DOMAIN leaves \subseteq 0 .. m_counters[2] - 1
    /\ \A k \in LeafNodes :
          /\ node_at(k).index \in DOMAIN leaves
          /\ \A k2 \in LeafNodes : k2 # k => node_at(k2).index # node_at(k).index
    /\ pc \in { "split", "gen_leaves" } =>
          \A t \in LeafTasks :
             LET task == m_task_queues[in_queue][t]
                 leaf == node_at(task.m_node).index
             IN  /\ task.m_node \in LeafNodes
                 /\ leaf = thread[t].leaf_index
                 /\ leaf \in DOMAIN leaves
                 /\ leaf_at(leaf).begin = task.m_begin
                 /\ leaf_at(leaf).end = task.m_end
    /\ Done =>
          /\ m_leaves = m_counters[2]
          /\ DOMAIN leaves = 0 .. m_leaves - 1
          /\ { node_at(k).index : k \in LeafNodes } = DOMAIN leaves

\* a finished build of three leaves or more, some written by split_kernel
\* and some by gen_leaves_kernel
LeavesWrittenOnceWitness ==
    /\ Done
    /\ m_leaves >= 3
    /\ \E i \in DOMAIN leaves : leaf_at(i).by = "gen_leaves_kernel"
    /\ \E i \in DOMAIN leaves : leaf_at(i).by = "split_kernel"

\* the tasks of the input queue
InputTasks == { m_task_queues[in_queue][t] : t \in 0 .. m_counters[in_queue] - 1 }

\* all keys of [begin,end) agree on every bit in [0, bits)
agree_on_all_bits(begin, end) ==
    \A b \in 0 .. bits - 1 : \A i, j \in begin + 1 .. end :
       Bit(codes[i], b) = Bit(codes[j], b)

\* C20: at the start of each pass of the loop with generate()'s level L,
\* every task in the input queue has m_input <= L, with equality when
\* keep_singletons is on; after `bits` passes every task left has
\* m_input < 0 and the keys of its range agree on every bit in [0, bits).
InputLevels ==
    pc = "loop" =>
        /\ \A task \in InputTasks :
              /\ task.m_input <= level
              /\ keep_singletons => task.m_input = level
        /\ launches.split = bits =>
              \A task \in InputTasks :
                 /\ task.m_input < 0
                 /\ agree_on_all_bits(task.m_begin, task.m_end)

\* after two passes with keep_singletons off: a task below the loop's
\* level and a task over two keys or more are left
InputLevelsWitness ==
    /\ pc = "loop"
    /\ bits = 2
    /\ launches.split = bits
    /\ ~keep_singletons
    /\ \E task \in InputTasks : task.m_input < level
    /\ \E task \in InputTasks : task.m_end - task.m_begin >= 2

====
